---- MODULE Spec2Model ----
(***************************************************************************)
(* Change detection and feed synthesis of gen_rss.py: the reconcile step   *)
(* (update_state), the two feed renderers (gen_feed, summarise_feed) and   *)
(* the run of main over the three persisted files.                         *)
(*                                                                         *)
(* A location is Python's insertion-ordered dict: a sequence of            *)
(* <<key, value>> pairs.  A string value is the sequence of its maximal    *)
(* dash-free chunks and its dashes ("a-b" is <<"a", "-", "b">>, "" is      *)
(* <<>>), so that joining values with '-' is concatenation.  The values of *)
(* 'id' and 'pubDate' are numbers.                                         *)
(***************************************************************************)
EXTENDS Integers, Sequences, FiniteSets, TLC

(* ------------------------------ bounds -------------------------------- *)

\* Number of runs of main (the clock advances by one per run).
MaxRuns == 3

\* Longest batch of locations a run reads.
MaxBatch == 3

\* Largest timestamp of the direct calls of update_state.
MaxStamp == 2

\* Most data rows of a CSV text.
MaxCsvRows == 2

(* ----------------------- Python dict and list ------------------------- *)

Range(s) == {s[i] : i \in DOMAIN s}

Keys(d) == {d[i][1] : i \in DOMAIN d}

Has(d, k) == k \in Keys(d)

Get(d, k) == d[CHOOSE i \in DOMAIN d : d[i][1] = k][2]

\* d[k] = v: an existing key keeps its position, a new key goes last.
Put(d, k, v) ==
    IF Has(d, k)
    THEN [i \in DOMAIN d |-> IF d[i][1] = k THEN <<k, v>> ELSE d[i]]
    ELSE Append(d, <<k, v>>)

Values(d) == [i \in DOMAIN d |-> d[i][2]]

\* The first n items of d.
Take(d, n) == SubSeq(d, 1, n)

\* list[n:]
Drop(s, n) == IF Len(s) <= n THEN <<>> ELSE SubSeq(s, n + 1, Len(s))

Restrict(f, S) == [x \in S |-> f[x]]

\* sep.join(vals) on chunked strings.
RECURSIVE Join(_, _)
Join(sep, vals) ==
    IF vals = <<>> THEN <<>>
    ELSE IF Len(vals) = 1 THEN vals[1]
    ELSE vals[1] \o sep \o Join(sep, Tail(vals))

(* ------------------------------ inputs -------------------------------- *)

FIELDS == <<"Event Id", "Status", "Exposure Site", "Street", "Suburb", "State",
            "Date", "Arrival Time", "Departure Time", "Contact">>

\* A normalised location with the columns in FIELDS order.
Location(vals) == [i \in 1..Len(FIELDS) |-> <<FIELDS[i], vals[i]>>]

\* The three rows of the test CSV after normalise, and the first of them
\* again with its volatile columns filled in.
HarveyNorman ==
    Location(<< <<>>, <<>>, <<"Harvey Norman">>, <<"Barrier Street">>,
                <<"Fyshwick">>, <<"ACT">>, <<"2021", "-", "08", "-", "10T00:00:00">>,
                <<"10:00:00">>, <<"11:00:00">>, <<"Close">> >>)

OutletCentre ==
    Location(<< <<>>, <<>>, <<"Canberra Outlet Centre">>, <<"377 Canberra Avenue">>,
                <<"Fyshwick">>, <<"ACT">>, <<"2021", "-", "08", "-", "08T00:00:00">>,
                <<"14:00:00">>, <<"15:30:00">>, <<"Monitor">> >>)

GoldCreek ==
    Location(<< <<>>, <<>>, <<"Gold Creek School">>, <<"Kelleway Avenue">>,
                <<"Nicholls">>, <<"ACT">>, <<"2021", "-", "08", "-", "12T00:00:00">>,
                <<"08:00:00">>, <<"15:10:00">>, <<"Close">> >>)

HarveyNormanUpdated ==
    Put(Put(HarveyNorman, "Event Id", <<"E1">>), "Status", <<"Updated">>)

Rows == {HarveyNorman, OutletCentre, GoldCreek, HarveyNormanUpdated}

RECURSIVE SeqsUpTo(_, _)
SeqsUpTo(S, n) ==
    IF n = 0 THEN {<<>>}
    ELSE SeqsUpTo(S, n - 1)
         \cup {Append(s, x) : s \in {t \in SeqsUpTo(S, n - 1) : Len(t) = n - 1}, x \in S}

Batches == SeqsUpTo(Rows, MaxBatch)

(* ------------------------------- clock -------------------------------- *)

\* The machine's UTC offset (the test's expected pubDate of timestamp 1 is
\* 10:00:01: Canberra, ten units ahead of UTC).
TZOffset == 10

\* datetime.utcnow().timestamp(): the naive UTC wall time read as local time.
UtcNowTimestamp(wall) == wall - TZOffset

\* datetime.fromtimestamp(ts).replace(tzinfo=timezone.utc): the local wall
\* time of ts, labelled UTC.
FromTimestamp(ts) == ts + TZOffset

\* datetime.now(): the local wall time.
LocalNow(wall) == wall + TZOffset

(* ------------------------------ CSV text ------------------------------ *)

\* The rows of the test CSV as the site publishes them: cells in FIELDS
\* order, dates and times as written.
RawHarveyNorman ==
    << <<>>, <<>>, <<"Harvey Norman">>, <<"Barrier Street">>, <<"Fyshwick">>,
       <<"ACT">>, <<"10/08/2021 ", "-", " Tuesday">>, <<"10:00am">>,
       <<"11:00am">>, <<"Close">> >>

RawOutletCentre ==
    << <<>>, <<>>, <<"Canberra Outlet Centre">>, <<"377 Canberra Avenue">>,
       <<"Fyshwick">>, <<"ACT">>, <<"08/08/2021 ", "-", " Sunday">>,
       <<"2:00pm">>, <<"3:30pm">>, <<"Monitor">> >>

RawGoldCreek ==
    << <<>>, <<>>, <<"Gold Creek School">>, <<"Kelleway Avenue">>, <<"Nicholls">>,
       <<"ACT">>, <<"12/08/2021 ", "-", " Thursday">>, <<"8:00am">>,
       <<"3:10pm">>, <<"Close">> >>

\* row with cell n replaced by v.
WithCell(row, n, v) == [row EXCEPT ![n] = v]

\* Harvey Norman with its volatile columns filled in and untidy cells.
RawHarveyNormanUpdated ==
    WithCell(WithCell(WithCell(WithCell(RawHarveyNorman,
        1, <<"E1">>), 2, <<"Updated">>), 5, <<" fyshwick">>), 6, <<"act">>)

\* Rows whose Date is before MIN_DATETIME, on it, after the first runs'
\* "now", and unparseable; a row with an unparseable Departure Time.
RawEarly == WithCell(RawOutletCentre, 7, <<"10/03/2020">>)

RawFirstDay == WithCell(RawOutletCentre, 7, <<"11/03/2020">>)

RawSoon == WithCell(RawGoldCreek, 7, <<"01/01/2022">>)

RawUndated == WithCell(RawGoldCreek, 7, <<"Unknown">>)

RawUntimed == WithCell(RawGoldCreek, 9, <<"Unknown">>)

\* Two rows whose Exposure Site and Street hold dashes.
RawColesManuka ==
    WithCell(WithCell(RawHarveyNorman,
        3, <<"Coles", "-", "Manuka">>), 4, <<"Terrace">>)

RawColes ==
    WithCell(WithCell(RawHarveyNorman,
        3, <<"Coles">>), 4, <<"Manuka", "-", "Terrace">>)

RawRows ==
    {RawHarveyNorman, RawHarveyNormanUpdated, RawEarly, RawFirstDay, RawSoon,
     RawUndated, RawUntimed, RawColesManuka, RawColes}

\* The first rows of the model: the header as the site writes it, with two
\* blank columns after it, with the volatile columns moved to the end,
\* without its last column, and with a column renamed.
SiteHeader ==
    << <<"Event ID">>, <<" Status">>, <<"Exposure Site">>, <<"Street">>,
       <<"Suburb">>, <<"State">>, <<"Date">>, <<"Arrival Time">>,
       <<"Departure Time">>, <<"Contact">> >>

\* The columns of row in the order "order" lists them.
Arrange(row, order) == [i \in DOMAIN order |-> row[order[i]]]

ColumnOrder(kind) ==
    CASE kind = "reordered" -> <<3, 4, 5, 6, 7, 8, 9, 10, 1, 2>>
      [] kind = "short" -> <<1, 2, 3, 4, 5, 6, 7, 8, 9>>
      [] OTHER -> <<1, 2, 3, 4, 5, 6, 7, 8, 9, 10>>

\* Cells a kind of file appends to every row.
ColumnTail(kind) == IF kind = "blank tail" THEN << <<>>, <<" ">> >> ELSE <<>>

Header(kind) ==
    Arrange(IF kind = "renamed" THEN WithCell(SiteHeader, 3, <<"Location">>)
                                ELSE SiteHeader,
            ColumnOrder(kind)) \o ColumnTail(kind)

HeaderKinds == {"site", "blank tail", "reordered", "short", "renamed"}

\* A CSV text: a header of some kind and rows with the same columns.
CsvOf(kind, rows) ==
    <<Header(kind)>> \o
        [i \in DOMAIN rows |-> Arrange(rows[i], ColumnOrder(kind)) \o ColumnTail(kind)]

\* The CSV texts of the model, with a header and without one.
Csvs ==
    {CsvOf(kind, rows) : kind \in HeaderKinds, rows \in SeqsUpTo(RawRows, MaxCsvRows)}
    \cup (SeqsUpTo(RawRows, MaxCsvRows) \ {<<>>})

(* ------------------------------ parse_csv ----------------------------- *)

\* str.strip()
strip(v) ==
    CASE v = <<" ">> -> <<>>
      [] v = <<" Status">> -> <<"Status">>
      [] v = <<" fyshwick">> -> <<"fyshwick">>
      [] OTHER -> v

\* str.title()
title(v) ==
    CASE v = <<"Event ID">> -> <<"Event Id">>
      [] v = <<"fyshwick">> -> <<"Fyshwick">>
      [] v = <<"ACT">> -> <<"Act">>
      [] v = <<"act">> -> <<"Act">>
      [] v = <<"10:00am">> -> <<"10:00Am">>
      [] v = <<"11:00am">> -> <<"11:00Am">>
      [] v = <<"2:00pm">> -> <<"2:00Pm">>
      [] v = <<"3:30pm">> -> <<"3:30Pm">>
      [] v = <<"8:00am">> -> <<"8:00Am">>
      [] v = <<"3:10pm">> -> <<"3:10Pm">>
      [] OTHER -> v

\* str.upper()
upper(v) ==
    CASE v = <<"Act">> -> <<"ACT">>
      [] v = <<"act">> -> <<"ACT">>
      [] OTHER -> v

\* while not fields[-1]: fields.pop()
RECURSIVE pop_blank(_)
pop_blank(fields) ==
    IF fields[Len(fields)] = <<>>
    THEN pop_blank(SubSeq(fields, 1, Len(fields) - 1))
    ELSE fields

\* The field names as cells.
FieldCells == [i \in DOMAIN FIELDS |-> <<FIELDS[i]>>]

\* {names[i]: row[i].strip() for i in range(len(names))}
row_dict(names, row) == [i \in DOMAIN names |-> <<names[i][1], strip(row[i])>>]

\* What parse_csv returns when the fields do not match.
None == [found |-> FALSE, locations |-> <<>>]

\* A faulty variant of parse_csv: a first row that is not the field set is
\* always a mismatch.
parse_csv_strict(text) ==
    LET fields == pop_blank([i \in DOMAIN text[1] |-> title(strip(text[1][i]))])
        rows == Tail(text)
    IN  IF Range(fields) # Range(FieldCells)
        THEN None
        ELSE [found |-> TRUE,
              locations |-> [r \in DOMAIN rows |-> row_dict(fields, rows[r])]]

\* parse_csv(csv_data): the text is a sequence of rows of cells.
parse_csv(text) ==
    LET fields == pop_blank([i \in DOMAIN text[1] |-> title(strip(text[1][i]))])
        rows == Tail(text)
    IN  IF Range(fields) # Range(FieldCells)
        THEN IF Len(fields) = Len(FIELDS)
             THEN [found |-> TRUE,
                   locations |-> <<row_dict(FieldCells, fields)>> \o
                       [r \in DOMAIN rows |-> row_dict(FieldCells, rows[r])]]
             ELSE None
        ELSE [found |-> TRUE,
              locations |-> [r \in DOMAIN rows |-> row_dict(fields, rows[r])]]

(* ------------------------------ normalise ----------------------------- *)

\* datetime(2020, 3, 11), on the model's time line of local wall times.
MIN_DATETIME == 11

\* dateparser.parse(v, languages=['en'], settings={'DATE_ORDER': 'DMY'}):
\* the place of a date on the time line and its isoformat(), the
\* time().isoformat() of a time of day, and None ("ok" is FALSE).
dateparser_parse(v) ==
    CASE v = <<"10/03/2020">> ->
             [ok |-> TRUE, at |-> 10, iso |-> <<"2020", "-", "03", "-", "10T00:00:00">>]
      [] v = <<"11/03/2020">> ->
             [ok |-> TRUE, at |-> 11, iso |-> <<"2020", "-", "03", "-", "11T00:00:00">>]
      [] v = <<"08/08/2021 ", "-", " Sunday">> ->
             [ok |-> TRUE, at |-> 15, iso |-> <<"2021", "-", "08", "-", "08T00:00:00">>]
      [] v = <<"10/08/2021 ", "-", " Tuesday">> ->
             [ok |-> TRUE, at |-> 16, iso |-> <<"2021", "-", "08", "-", "10T00:00:00">>]
      [] v = <<"12/08/2021 ", "-", " Thursday">> ->
             [ok |-> TRUE, at |-> 17, iso |-> <<"2021", "-", "08", "-", "12T00:00:00">>]
      [] v = <<"01/01/2022">> ->
             [ok |-> TRUE, at |-> 22, iso |-> <<"2022", "-", "01", "-", "01T00:00:00">>]
      [] v \in {<<"10:00am">>, <<"10:00Am">>} -> [ok |-> TRUE, time |-> <<"10:00:00">>]
      [] v \in {<<"11:00am">>, <<"11:00Am">>} -> [ok |-> TRUE, time |-> <<"11:00:00">>]
      [] v \in {<<"2:00pm">>, <<"2:00Pm">>} -> [ok |-> TRUE, time |-> <<"14:00:00">>]
      [] v \in {<<"3:30pm">>, <<"3:30Pm">>} -> [ok |-> TRUE, time |-> <<"15:30:00">>]
      [] v \in {<<"8:00am">>, <<"8:00Am">>} -> [ok |-> TRUE, time |-> <<"08:00:00">>]
      [] v \in {<<"3:10pm">>, <<"3:10Pm">>} -> [ok |-> TRUE, time |-> <<"15:10:00">>]
      [] OTHER -> [ok |-> FALSE]

\* 'Time' in k
IsTimeKey(k) == k \in {"Arrival Time", "Departure Time"}

\* A faulty variant of invalid_date: MIN_DATETIME itself is out of range.
invalid_date_exclusive(value, now) ==
    ~value.ok \/ value.at <= MIN_DATETIME \/ value.at > now

\* value is None or value < MIN_DATETIME or value > now
invalid_date(value, now) ==
    ~value.ok \/ value.at < MIN_DATETIME \/ value.at > now

\* The inner loop breaks off at this item: the location is invalid.
invalid_item(k, v, now) ==
    \/ k = "Date" /\ invalid_date(dateparser_parse(v), now)
    \/ IsTimeKey(k) /\ ~dateparser_parse(v).ok

\* What the inner loop assigns to location[k].
normalised_value(k, v) ==
    IF k = "Date" THEN dateparser_parse(v).iso
    ELSE IF IsTimeKey(k) THEN dateparser_parse(v).time
    ELSE IF k = "Exposure Site" THEN strip(v)
    ELSE IF k = "State" THEN upper(strip(v))
    ELSE title(strip(v))

\* The inner loop over a location no item of which is invalid.
normalise_one(location) ==
    [i \in DOMAIN location |->
        <<location[i][1], normalised_value(location[i][1], location[i][2])>>]

\* [x for i, x in enumerate(locations) if i not in invalid]
normalise(locations, now) ==
    LET valid(location) ==
            \A i \in DOMAIN location :
                ~invalid_item(location[i][1], location[i][2], now)
        kept == SelectSeq(locations, valid)
    IN  [j \in DOMAIN kept |-> normalise_one(kept[j])]

(* ------------------------------ gen_id -------------------------------- *)

\* The string gen_id hashes: every value but the first two, joined by '-'.
HashInput(location) == Join(<<"-">>, Drop(Values(location), 2))

\* The hashed strings in the order of their digests: the test's guids are
\* Bpk4... (Gold Creek) < iLOD... (Harvey Norman) < oxT1... (Outlet Centre).
TestDigests ==
    <<HashInput(GoldCreek), HashInput(HarveyNorman), HashInput(OutletCentre)>>

\* The locations of the CSV rows that are not the test's, after normalise:
\* with the site's column order and with the volatile columns last.
FirstDay == Put(OutletCentre, "Date", <<"2020", "-", "03", "-", "11T00:00:00">>)

Soon == Put(GoldCreek, "Date", <<"2022", "-", "01", "-", "01T00:00:00">>)

Coles ==
    Put(Put(HarveyNorman, "Exposure Site", <<"Coles">>),
        "Street", <<"Manuka", "-", "Terrace">>)

VolatileLast(location) == Arrange(location, ColumnOrder("reordered"))

\* The digests of the other strings gen_id hashes follow in a fixed order.
DigestOrder ==
    TestDigests \o
    <<HashInput(FirstDay), HashInput(Soon), HashInput(Coles),
      HashInput(VolatileLast(HarveyNorman)),
      HashInput(VolatileLast(HarveyNormanUpdated)),
      HashInput(VolatileLast(GoldCreek)),
      HashInput(VolatileLast(FirstDay)),
      HashInput(VolatileLast(Soon))>>

\* base64(md5(.)): an opaque digest, one distinct value per distinct input.
\* Digests are numbers so that they compare, as the base64 strings do.
Md5B64(s) == LET order == DigestOrder IN CHOOSE n \in DOMAIN order : order[n] = s

gen_id_one(location) == Put(location, "id", Md5B64(HashInput(location)))

gen_id(locations) == [i \in DOMAIN locations |-> gen_id_one(locations[i])]

(* ----------------------------- gen_region ----------------------------- *)

suburb_to_region(suburb) ==
    CASE suburb = <<"Fyshwick">> -> <<"Inner South">>
      [] suburb = <<"Nicholls">> -> <<"Gungahlin">>
      [] OTHER -> <<"Other">>

gen_region_one(location) ==
    IF Has(location, "Suburb") /\ Get(location, "Suburb") # <<>>
    THEN Put(location, "Region", suburb_to_region(Get(location, "Suburb")))
    ELSE location

gen_region(locations) == [i \in DOMAIN locations |-> gen_region_one(locations[i])]

(* ---------------------------- update_state ---------------------------- *)

\* {x['id']: x for x in exposures}: the last record of each id wins.
exposure_guids_of(exposures) ==
    [g \in {Get(exposures[i], "id") : i \in DOMAIN exposures} |->
        exposures[CHOOSE i \in DOMAIN exposures :
                      /\ Get(exposures[i], "id") = g
                      /\ \A j \in DOMAIN exposures :
                             Get(exposures[j], "id") = g => j <= i]]

\* A faulty variant of evict: nothing is deleted.
evict_nothing(existing, exposure_guids) == existing

\* for guid in existing.keys() - exposure_guids: del existing[guid]
evict(existing, exposure_guids) ==
    Restrict(existing, DOMAIN existing \cap DOMAIN exposure_guids)

\* cur_time or datetime.utcnow().timestamp(); cur_time is <<>> for None and
\* <<t>> for a value t.
effective_time(cur_time, wall) ==
    IF cur_time = <<>> \/ cur_time[1] = 0 THEN UtcNowTimestamp(wall) ELSE cur_time[1]

\* A faulty variant of new_entries_of: every id of the batch counts as new.
new_entries_all(kept, exposure_guids) == DOMAIN exposure_guids

\* exposure_guids.keys() - existing, after the eviction.
new_entries_of(kept, exposure_guids) == DOMAIN exposure_guids \ DOMAIN kept

\* loc['pubDate'] = cur_time writes into the batch's own record: the one
\* exposure_guids holds for a new id, the last of that id.
stamp_exposures(exposures, new_entries, t) ==
    [i \in DOMAIN exposures |->
        IF /\ Get(exposures[i], "id") \in new_entries
           /\ \A j \in DOMAIN exposures :
                  Get(exposures[j], "id") = Get(exposures[i], "id") => j <= i
        THEN Put(exposures[i], "pubDate", t)
        ELSE exposures[i]]

\* A faulty variant of update_state: a new entry is stored as the batch has
\* it, without a pubDate.
update_state_unstamped(existing, exposures, cur_time, wall) ==
    LET exposure_guids == exposure_guids_of(exposures)
        kept == evict(existing, exposure_guids)
        new_entries == new_entries_of(kept, exposure_guids)
    IN  [existing |-> [g \in DOMAIN kept \cup new_entries |->
                          IF g \in new_entries THEN exposure_guids[g] ELSE kept[g]],
         new |-> [g \in new_entries |-> exposure_guids[g]],
         exposures |-> exposures]

\* A faulty variant of update_state: an entry the batch lists again takes
\* the batch's field values and keeps only its pubDate.
update_state_refreshing(existing, exposures, cur_time, wall) ==
    LET exposure_guids == exposure_guids_of(exposures)
        kept == evict(existing, exposure_guids)
        t == effective_time(cur_time, wall)
        new_entries == new_entries_of(kept, exposure_guids)
        stamped == [g \in new_entries |-> Put(exposure_guids[g], "pubDate", t)]
    IN  [existing |-> [g \in DOMAIN kept \cup new_entries |->
                          IF g \in new_entries
                          THEN stamped[g]
                          ELSE Put(exposure_guids[g], "pubDate",
                                   Get(kept[g], "pubDate"))],
         new |-> stamped,
         exposures |-> stamp_exposures(exposures, new_entries, t)]

\* The state after the call ("existing", mutated in place), the returned
\* dict of new entries ("new") and the batch as the call leaves it.
update_state(existing, exposures, cur_time, wall) ==
    LET exposure_guids == exposure_guids_of(exposures)
        kept == evict(existing, exposure_guids)
        t == effective_time(cur_time, wall)
        new_entries == new_entries_of(kept, exposure_guids)
        stamped == [g \in new_entries |-> Put(exposure_guids[g], "pubDate", t)]
    IN  [existing |-> [g \in DOMAIN kept \cup new_entries |->
                          IF g \in new_entries THEN stamped[g] ELSE kept[g]],
         new |-> stamped,
         exposures |-> stamp_exposures(exposures, new_entries, t)]

(* ------------------------------ gen_desc ------------------------------ *)

\* datetime.fromisoformat(v).strftime('%A, %d %B %Y')
LongDate(v) ==
    CASE v = <<"2021", "-", "08", "-", "10T00:00:00">> -> <<"Tuesday, 10 August 2021">>
      [] v = <<"2021", "-", "08", "-", "08T00:00:00">> -> <<"Sunday, 08 August 2021">>
      [] v = <<"2021", "-", "08", "-", "12T00:00:00">> -> <<"Thursday, 12 August 2021">>
      [] v = <<"2020", "-", "03", "-", "10T00:00:00">> -> <<"Tuesday, 10 March 2020">>
      [] v = <<"2020", "-", "03", "-", "11T00:00:00">> -> <<"Wednesday, 11 March 2020">>
      [] v = <<"2022", "-", "01", "-", "01T00:00:00">> -> <<"Saturday, 01 January 2022">>

\* time.fromisoformat(v).strftime('%H%M')
HHMM(v) ==
    CASE v = <<"10:00:00">> -> <<"1000">>
      [] v = <<"11:00:00">> -> <<"1100">>
      [] v = <<"14:00:00">> -> <<"1400">>
      [] v = <<"15:30:00">> -> <<"1530">>
      [] v = <<"08:00:00">> -> <<"0800">>
      [] v = <<"15:10:00">> -> <<"1510">>

desc_value(k, v) ==
    IF k = "Date" THEN LongDate(v) ELSE IF IsTimeKey(k) THEN HHMM(v) ELSE v

\* The '<b>k</b>:v<br/>' pieces as <<k, v>> pairs, in the dict's order.
RECURSIVE gen_desc(_)
gen_desc(loc) ==
    IF loc = <<>> THEN <<>>
    ELSE LET k == Head(loc)[1]
             v == Head(loc)[2]
         IN  IF k \in {"id", "pubDate"} THEN gen_desc(Tail(loc))
             ELSE <<<<k, desc_value(k, v)>>>> \o gen_desc(Tail(loc))

(* ------------------------------ gen_feed ------------------------------ *)

\* The sort key (x['pubDate'], x['id']), compared as Python compares tuples.
KeyLess(a, b) ==
    \/ Get(a, "pubDate") < Get(b, "pubDate")
    \/ /\ Get(a, "pubDate") = Get(b, "pubDate")
       /\ Get(a, "id") < Get(b, "id")

\* sorted(locations.values(), key=..., reverse=True), over the dict keys D.
RECURSIVE sorted_desc(_, _)
sorted_desc(locations, D) ==
    IF D = {} THEN <<>>
    ELSE LET g == CHOOSE x \in D : \A y \in D : ~KeyLess(locations[x], locations[y])
         IN  <<locations[g]>> \o sorted_desc(locations, D \ {g})

\* A faulty variant of add_entry: order='append'.
add_entry_append(entries, fe) == Append(entries, fe)

\* FeedGenerator.add_entry() with its default order='prepend': the new entry
\* goes in front of the entries added before it.
add_entry(entries, fe) == <<fe>> \o entries

feed_item(loc) ==
    [title |-> Get(loc, "Suburb") \o <<":">> \o Get(loc, "Exposure Site"),
     description |-> gen_desc(loc),
     guid |-> Get(loc, "id"),
     pubDate |-> FromTimestamp(Get(loc, "pubDate"))]

\* The for loop of gen_feed over the sorted list.
RECURSIVE feed_entries(_, _)
feed_entries(entries, sorted) ==
    IF sorted = <<>> THEN entries
    ELSE feed_entries(add_entry(entries, feed_item(Head(sorted))), Tail(sorted))

\* The document: its items in document order, and the build time.
gen_feed(locations, wall) ==
    [title |-> "ACT Exposure Locations",
     lastBuildDate |-> wall,
     items |-> feed_entries(<<>>, sorted_desc(locations, DOMAIN locations))]

(* --------------------------- summarise_feed --------------------------- *)

\* The keys of Counter(x['Suburb'] for x in grp), in first-encounter order.
RECURSIVE counter_keys(_, _)
counter_keys(grp, seen) ==
    IF grp = <<>> THEN seen
    ELSE LET s == Get(Head(grp), "Suburb")
         IN  counter_keys(Tail(grp), IF s \in Range(seen) THEN seen ELSE Append(seen, s))

counter_count(grp, suburb) ==
    Cardinality({i \in DOMAIN grp : Get(grp[i], "Suburb") = suburb})

\* A faulty variant of most_common: the stable sort without reverse, smallest first.
RECURSIVE most_common_ascending(_)
most_common_ascending(pairs) ==
    IF pairs = <<>> THEN <<>>
    ELSE LET i == CHOOSE i \in DOMAIN pairs :
                      /\ \A j \in DOMAIN pairs : pairs[j][2] >= pairs[i][2]
                      /\ \A j \in 1..(i - 1) : pairs[j][2] > pairs[i][2]
         IN  <<pairs[i]>> \o
             most_common_ascending([j \in 1..(Len(pairs) - 1) |->
                                       IF j < i THEN pairs[j] ELSE pairs[j + 1]])

\* Counter.most_common(): a stable sort of the <<suburb, count>> pairs by
\* count, largest first; equal counts keep their first-encounter order.
RECURSIVE most_common(_)
most_common(pairs) ==
    IF pairs = <<>> THEN <<>>
    ELSE LET i == CHOOSE i \in DOMAIN pairs :
                      /\ \A j \in DOMAIN pairs : pairs[j][2] <= pairs[i][2]
                      /\ \A j \in 1..(i - 1) : pairs[j][2] < pairs[i][2]
         IN  <<pairs[i]>> \o
             most_common([j \in 1..(Len(pairs) - 1) |->
                             IF j < i THEN pairs[j] ELSE pairs[j + 1]])

\* The '<b>suburb:</b>count<br/>' pieces as <<suburb, count>> pairs.
summarise_group(grp) ==
    LET keys == counter_keys(grp, <<>>)
    IN  most_common([i \in DOMAIN keys |-> <<keys[i], counter_count(grp, keys[i])>>])

\* itertools.groupby(locations, key=pubDate): maximal runs of consecutive
\* elements with equal pubDate.
RECURSIVE groupby(_)
groupby(sorted) ==
    IF sorted = <<>> THEN <<>>
    ELSE LET p == Get(Head(sorted), "pubDate")
             n == CHOOSE n \in 1..Len(sorted) :
                      /\ \A i \in 1..n : Get(sorted[i], "pubDate") = p
                      /\ n < Len(sorted) => Get(sorted[n + 1], "pubDate") # p
         IN  <<SubSeq(sorted, 1, n)>> \o groupby(Drop(sorted, n))

\* The guid hashes "{pubDate}-{desc}"; the digest is kept as its input.
summary_item(locs) ==
    LET pubDate == Get(locs[1], "pubDate")
        desc == summarise_group(locs)
    IN  [title |-> <<Len(locs), " additional exposure sites">>,
         description |-> desc,
         guid |-> [md5 |-> <<pubDate, "-", desc>>],
         pubDate |-> FromTimestamp(pubDate)]

RECURSIVE summary_entries(_, _)
summary_entries(entries, groups) ==
    IF groups = <<>> THEN entries
    ELSE summary_entries(add_entry(entries, summary_item(Head(groups))), Tail(groups))

summarise_feed(locations, wall) ==
    [title |-> "ACT Exposure Summaries",
     lastBuildDate |-> wall,
     items |-> summary_entries(<<>>, groupby(sorted_desc(locations, DOMAIN locations)))]

(* ------------------------------- state -------------------------------- *)

VARIABLES
    csv_data,     \* the CSV text main read, as rows of cells
    clock,        \* the UTC wall clock
    pc,           \* where main is
    locations,    \* main's locations, after gen_id and gen_region
    loaded,       \* the state as main loaded it, before update_state
    state,        \* main's state dict
    changes,      \* what update_state returned
    written,      \* the files this run has written so far
    rss_file,     \* PREFIX.rss
    rss_summary_file,   \* PREFIX_summary.rss
    state_file,   \* PREFIX_state.json
    committed,    \* the state document the last completed write left
    first_seen,   \* history: id -> the clock of the run that first observed it
    absent_since, \* history: the ids some batch lacked after their first sighting
    prev_batch    \* history: <<the previous run's batch>> where it is remembered

files == <<rss_file, rss_summary_file, state_file, committed>>

history == <<first_seen, absent_since, prev_batch>>

vars == <<csv_data, clock, pc, locations, loaded, state, changes, written,
          rss_file, rss_summary_file, state_file, committed,
          first_seen, absent_since, prev_batch>>

\* The ids of a batch.
IdsOf(locs) == {Get(locs[i], "id") : i \in DOMAIN locs}

\* A file that does not exist.
NoFile == [exists |-> FALSE]

\* A file holding a whole document.
FileOf(doc) == [exists |-> TRUE, whole |-> TRUE, doc |-> doc]

\* The state file after open('w') and before json.dump has finished.
Truncated == [exists |-> TRUE, whole |-> FALSE]

EmptyDict == [g \in {} |-> <<>>]

\* json.dump(state, f): the document lists each key with its entry.
json_dump(d) == {<<g, d[g]>> : g \in DOMAIN d}

\* json.load(f) of such a document.
json_load(doc) ==
    [g \in {m[1] : m \in doc} |-> (CHOOSE m \in doc : m[1] = g)[2]]

\* A faulty variant of load_state: the state document is never read.
load_state_empty(file) == EmptyDict

\* A whole JSON document that is not an object: the list [].
ListDocument == [exists |-> TRUE, whole |-> TRUE, list |-> <<>>]

\* json.load(f) of the file, if it is reached and succeeds, gives a dict.
is_mapping(file) == ~(file.exists /\ file.whole /\ "doc" \notin DOMAIN file)

\* main, lines 270-276: no file, or one json.load fails on, is an empty state.
\* A whole document that is not an object is loaded as it is: "state" then
\* holds no dict, which is_mapping(state_file) tells until the file is written.
load_state(file) ==
    IF file.exists /\ file.whole /\ "doc" \in DOMAIN file
    THEN json_load(file.doc)
    ELSE EmptyDict

Init ==
    /\ csv_data = <<>>
    /\ clock = TZOffset
    /\ pc = "idle"
    /\ locations = <<>>
    /\ loaded = EmptyDict
    /\ state = EmptyDict
    /\ changes = EmptyDict
    /\ written = {}
    /\ rss_file = NoFile
    /\ rss_summary_file = NoFile
    /\ state_file = NoFile
    /\ committed = NoFile
    /\ first_seen = EmptyDict
    /\ absent_since = {}
    /\ prev_batch = <<>>

(* -------------------------------- main -------------------------------- *)

\* Lines 252-276: read the batch (already parsed and normalised), give each
\* location its id and region, and load the previous state.
Start(batch) ==
    /\ pc \in {"idle", "failed"}
    /\ clock < TZOffset + MaxRuns
    /\ clock' = clock + 1
    /\ locations' = gen_region(gen_id(batch))
    /\ state' = load_state(state_file)
    /\ loaded' = load_state(state_file)
    /\ changes' = EmptyDict
    /\ written' = {}
    /\ pc' = "update_state"
    /\ UNCHANGED <<csv_data, files, history>>

\* Line 278: changes = update_state(state, locations)
UpdateState ==
    /\ pc = "update_state"
    /\ is_mapping(state_file)
    /\ LET r == update_state(state, locations, <<>>, clock)
       IN  /\ state' = r.existing
           /\ changes' = r.new
           /\ locations' = r.exposures
    /\ pc' = "if_changes"
    /\ first_seen' = [g \in DOMAIN first_seen \cup IdsOf(locations) |->
                         IF g \in DOMAIN first_seen THEN first_seen[g] ELSE clock]
    /\ absent_since' = absent_since \cup (DOMAIN first_seen \ IdsOf(locations))
    /\ UNCHANGED <<csv_data, clock, loaded, written, files, prev_batch>>

\* Lines 292-295: if changes: write the detail feed.
WriteRss ==
    /\ pc = "if_changes"
    /\ changes # EmptyDict
    /\ rss_file' = FileOf(gen_feed(state, clock))
    /\ written' = written \cup {"rss"}
    /\ pc' = "write_summary"
    /\ UNCHANGED <<csv_data, clock, locations, loaded, state, changes,
                   rss_summary_file, state_file, committed, history>>

\* A faulty variant of Unchanged: the detail feed is rendered all the same.
Unchanged_rendering ==
    /\ pc = "if_changes"
    /\ changes = EmptyDict
    /\ rss_file' = FileOf(gen_feed(state, clock))
    /\ pc' = "done"
    /\ UNCHANGED <<csv_data, clock, locations, loaded, state, changes, written,
                   rss_summary_file, state_file, committed, history>>

\* Lines 303-304: else: nothing is written.
Unchanged ==
    /\ pc = "if_changes"
    /\ changes = EmptyDict
    /\ pc' = "done"
    /\ UNCHANGED <<csv_data, clock, locations, loaded, state, changes, written,
                   files, history>>

\* Lines 297-298: the summary feed, of the whole state.
WriteSummary ==
    /\ pc = "write_summary"
    /\ rss_summary_file' = FileOf(summarise_feed(state, clock))
    /\ written' = written \cup {"summary"}
    /\ pc' = "open_state"
    /\ UNCHANGED <<csv_data, clock, locations, loaded, state, changes,
                   rss_file, state_file, committed, history>>

\* Line 301: state_file.open('w') truncates the document in place.
OpenState ==
    /\ pc = "open_state"
    /\ state_file' = Truncated
    /\ pc' = "dump_state"
    /\ UNCHANGED <<csv_data, clock, locations, loaded, state, changes, written,
                   rss_file, rss_summary_file, committed, history>>

\* Line 302 and the end of the with block: the document is whole again.
DumpState ==
    /\ pc = "dump_state"
    /\ state_file' = FileOf(json_dump(state))
    /\ committed' = FileOf(json_dump(state))
    /\ written' = written \cup {"state"}
    /\ pc' = "done"
    /\ UNCHANGED <<csv_data, clock, locations, loaded, state, changes,
                   rss_file, rss_summary_file, history>>

\* main returns and the process ends: what it held in memory is gone.
Exit ==
    /\ pc = "done"
    /\ pc' = "idle"
    /\ locations' = <<>>
    /\ loaded' = EmptyDict
    /\ state' = EmptyDict
    /\ changes' = EmptyDict
    /\ written' = {}
    /\ prev_batch' = <<>>
    /\ UNCHANGED <<csv_data, clock, files, first_seen, absent_since>>

Next ==
    \/ \E batch \in Batches : Start(batch)
    \/ UpdateState
    \/ WriteRss
    \/ Unchanged
    \/ WriteSummary
    \/ OpenState
    \/ DumpState
    \/ Exit

Spec == Init /\ [][Next]_vars

\* The process dies (an exception, a kill, a power cut) somewhere in a run.
Fail ==
    /\ pc \notin {"idle", "failed", "done"}
    /\ pc' = "failed"
    /\ locations' = <<>>
    /\ loaded' = EmptyDict
    /\ state' = EmptyDict
    /\ changes' = EmptyDict
    /\ written' = {}
    /\ prev_batch' = <<>>
    /\ UNCHANGED <<csv_data, clock, files, first_seen, absent_since>>

NextFail == Next \/ Fail

SpecFail == Init /\ [][NextFail]_vars

(* ------------------- runs that remember their batch ------------------- *)

\* Exit, with the batch of the run kept as history for the next run.
ExitRemember ==
    /\ pc = "done"
    /\ pc' = "idle"
    /\ locations' = <<>>
    /\ loaded' = EmptyDict
    /\ state' = EmptyDict
    /\ changes' = EmptyDict
    /\ written' = {}
    /\ prev_batch' = <<[i \in DOMAIN locations |-> Take(locations[i], Len(FIELDS))]>>
    /\ UNCHANGED <<csv_data, clock, files, first_seen, absent_since>>

NextRepeat ==
    \/ \E batch \in Batches : Start(batch)
    \/ UpdateState
    \/ WriteRss
    \/ Unchanged
    \/ WriteSummary
    \/ OpenState
    \/ DumpState
    \/ ExitRemember

SpecRepeat == Init /\ [][NextRepeat]_vars

(* ------------------ main over any state document ------------------- *)

\* The state documents a first run may find: none, one json.load fails on,
\* and one that parses to a list.
StartDocument(k) ==
    CASE k = 1 -> NoFile
      [] k = 2 -> Truncated
      [] k = 3 -> ListDocument

InitLoad ==
    /\ csv_data = <<>>
    /\ clock = TZOffset
    /\ pc = "idle"
    /\ locations = <<>>
    /\ loaded = EmptyDict
    /\ state = EmptyDict
    /\ changes = EmptyDict
    /\ written = {}
    /\ rss_file = NoFile
    /\ rss_summary_file = NoFile
    /\ \E k \in 1..3 : state_file = StartDocument(k) /\ committed = StartDocument(k)
    /\ first_seen = EmptyDict
    /\ absent_since = {}
    /\ prev_batch = <<>>

\* Line 176 on a state that is not a dict: existing.keys() raises
\* AttributeError, which nothing catches.
UpdateStateRaises ==
    /\ pc = "update_state"
    /\ ~is_mapping(state_file)
    /\ pc' = "failed"
    /\ locations' = <<>>
    /\ loaded' = EmptyDict
    /\ state' = EmptyDict
    /\ changes' = EmptyDict
    /\ written' = {}
    /\ UNCHANGED <<csv_data, clock, files, history>>

NextLoad == Next \/ UpdateStateRaises

SpecLoad == InitLoad /\ [][NextLoad]_vars

(* ----------------------- main over any CSV text ---------------------- *)

\* The state an earlier run left after reading Harvey Norman and the Outlet
\* Centre.
SeenBefore ==
    update_state(EmptyDict, gen_region(gen_id(<<HarveyNorman, OutletCentre>>)),
                 <<>>, TZOffset).existing

\* One run of main, before or after the date of RawSoon, after no earlier
\* run or after one that left SeenBefore and its three files.
InitCsv ==
    /\ csv_data = <<>>
    /\ clock \in {TZOffset, TZOffset + 1}
    /\ pc = "idle"
    /\ locations = <<>>
    /\ loaded = EmptyDict
    /\ state = EmptyDict
    /\ changes = EmptyDict
    /\ written = {}
    /\ \/ /\ rss_file = NoFile
          /\ rss_summary_file = NoFile
          /\ state_file = NoFile
          /\ committed = NoFile
          /\ first_seen = EmptyDict
       \/ /\ rss_file = FileOf(gen_feed(SeenBefore, TZOffset))
          /\ rss_summary_file = FileOf(summarise_feed(SeenBefore, TZOffset))
          /\ state_file = FileOf(json_dump(SeenBefore))
          /\ committed = FileOf(json_dump(SeenBefore))
          /\ first_seen = [g \in DOMAIN SeenBefore |-> TZOffset]
    /\ absent_since = {}
    /\ prev_batch = <<>>

\* Lines 252-276 on a CSV text: parse_csv, normalise, gen_id, gen_region and
\* the load of the state.  When parse_csv returns None, len(locations) on
\* line 265 raises TypeError, which nothing catches.
StartCsv(text) ==
    /\ pc = "idle"
    /\ clock' = clock + 1
    /\ csv_data' = text
    /\ IF parse_csv(text).found
       THEN /\ locations' = gen_region(gen_id(
                                normalise(parse_csv(text).locations, LocalNow(clock'))))
            /\ state' = load_state(state_file)
            /\ loaded' = load_state(state_file)
            /\ pc' = "update_state"
       ELSE /\ locations' = <<>>
            /\ state' = EmptyDict
            /\ loaded' = EmptyDict
            /\ pc' = "failed"
    /\ changes' = EmptyDict
    /\ written' = {}
    /\ UNCHANGED <<files, history>>

NextCsv ==
    \/ \E text \in Csvs : StartCsv(text)
    \/ UpdateState
    \/ WriteRss
    \/ Unchanged
    \/ WriteSummary
    \/ OpenState
    \/ DumpState

SpecCsv == InitCsv /\ [][NextCsv]_vars

(* -------------------- update_state called directly -------------------- *)

\* The locations of the model with their id and region.
Prepared == {gen_region_one(gen_id_one(r)) : r \in Rows}

\* State entries: a prepared location and the pubDate of an earlier call.
Entries == {Put(p, "pubDate", t) : p \in Prepared, t \in 1..MaxStamp}

\* The well-formed states: each key is the id of its entry.
States ==
    {[g \in {Get(e, "id") : e \in E} |-> CHOOSE e \in E : Get(e, "id") = g] :
        E \in {E \in SUBSET Entries :
                  \A a, b \in E : Get(a, "id") = Get(b, "id") => a = b}}

\* The cur_time arguments: None, 0 and the timestamps of the model.
CurTimes == {<<>>} \cup {<<t>> : t \in 0..MaxStamp}

InitUpdate ==
    /\ csv_data = <<>>
    /\ clock = TZOffset + MaxStamp + 1
    /\ pc = "call1"
    /\ locations \in {gen_region(gen_id(b)) : b \in Batches}
    /\ state \in States
    /\ loaded = state
    /\ changes = EmptyDict
    /\ written = {}
    /\ rss_file = NoFile
    /\ rss_summary_file = NoFile
    /\ state_file = NoFile
    /\ committed = NoFile
    /\ first_seen = EmptyDict
    /\ absent_since = {}
    /\ prev_batch = <<>>

\* update_state(state, locations, cur_time), as the tests call it; "loaded"
\* keeps the state as it was before the call.
CallUpdate(cur_time) ==
    /\ pc \in {"call1", "call2"}
    /\ pc' = IF pc = "call1" THEN "call2" ELSE "called"
    /\ LET r == update_state(state, locations, cur_time, clock)
       IN  /\ state' = r.existing
           /\ changes' = r.new
           /\ locations' = r.exposures
    /\ loaded' = state
    /\ UNCHANGED <<csv_data, clock, written, files, history>>

NextUpdate == \E cur_time \in CurTimes : CallUpdate(cur_time)

SpecUpdate == InitUpdate /\ [][NextUpdate]_vars

(* ------------------------------- claims ------------------------------- *)

\* main has called update_state in this run.
AfterUpdate == pc \in {"if_changes", "write_summary", "open_state", "dump_state", "done"}

\* The ids update_state deleted from the loaded state in this run.
Evicted == DOMAIN loaded \ DOMAIN state

AllFiles == {"rss", "summary", "state"}

Items(file) == file.doc.items

Guids(file) == {Items(file)[i].guid : i \in DOMAIN Items(file)}

RECURSIVE SumSeq(_)
SumSeq(s) == IF s = <<>> THEN 0 ELSE Head(s) + SumSeq(Tail(s))

\* The number of entries a summary document counts in its titles.
SummaryCount(file) == SumSeq([i \in DOMAIN Items(file) |-> Items(file)[i].title[1]])

\* C1 (as claimed): a finished run has rewritten the two feeds and the state
\* document if and only if update_state added an entry or evicted one.
C1_RegeneratedIffAddedOrEvicted ==
    pc = "done" =>
        ((written = AllFiles) <=> (changes # EmptyDict \/ Evicted # {}))

\* C2: once update_state has run, no key of the loaded state that the batch
\* lacks is left in the state, and the feeds this run renders hold nothing
\* but the batch: every detail item is an id of the batch and the summary
\* counts as many entries as the batch has ids.
C2_EvictedNeverRendered ==
    AfterUpdate =>
        /\ \A g \in DOMAIN loaded \ IdsOf(locations) : g \notin DOMAIN state
        /\ "rss" \in written => Guids(rss_file) \subseteq IdsOf(locations)
        /\ "summary" \in written =>
               SummaryCount(rss_summary_file) = Cardinality(IdsOf(locations))

\* A run that evicted an id and rendered both feeds.
C2_Witness ==
    /\ pc = "done"
    /\ written = AllFiles
    /\ DOMAIN loaded \ IdsOf(locations) # {}

\* C3: a second update_state with the same batch, whatever its cur_time,
\* returns no new entry and leaves the state as the first call left it.
C3_SecondCallChangesNothing ==
    pc = "called" => (changes = EmptyDict /\ state = loaded)

\* After the second call: the first call stamped a record of the batch (a
\* new entry) beside an entry the state held before, of another pubDate.
C3_Witness ==
    /\ pc = "called"
    /\ \E i \in DOMAIN locations :
           /\ Has(locations[i], "pubDate")
           /\ \E g \in DOMAIN state :
                  Get(state[g], "pubDate") # Get(locations[i], "pubDate")

\* C4: an id that no batch has lacked since its first sighting keeps, in the
\* state and in every detail feed rendered, the clock of the run that first
\* observed it.
C4_PubDatePreserved ==
    AfterUpdate =>
        /\ \A g \in DOMAIN state \ absent_since :
               Get(state[g], "pubDate") = UtcNowTimestamp(first_seen[g])
        /\ "rss" \in written =>
               \A i \in DOMAIN Items(rss_file) :
                   Items(rss_file)[i].guid \notin absent_since =>
                       Items(rss_file)[i].pubDate = first_seen[Items(rss_file)[i].guid]

\* A later run renders the detail feed with an item first observed earlier.
C4_Witness ==
    /\ pc = "done"
    /\ "rss" \in written
    /\ \E i \in DOMAIN Items(rss_file) :
           /\ Items(rss_file)[i].guid \notin absent_since
           /\ first_seen[Items(rss_file)[i].guid] < clock
           /\ Items(rss_file)[i].pubDate < clock

\* C5 (as claimed): in the detail feed document an entry with a later
\* first-seen timestamp comes before every entry with an earlier one.
C5_NewestFirst ==
    "rss" \in written =>
        \A i, j \in DOMAIN Items(rss_file) :
            Items(rss_file)[i].pubDate > Items(rss_file)[j].pubDate => i < j

\* C6: when all entries of the state share one first-seen timestamp, the
\* detail feed lists them in ascending order of guid, one item per entry.
C6_TieOrderAscending ==
    ("rss" \in written
        /\ \A g, h \in DOMAIN state :
               Get(state[g], "pubDate") = Get(state[h], "pubDate")) =>
        /\ Len(Items(rss_file)) = Cardinality(DOMAIN state)
        /\ Guids(rss_file) = DOMAIN state
        /\ \A i, j \in DOMAIN Items(rss_file) :
               i < j => Items(rss_file)[i].guid < Items(rss_file)[j].guid

\* The test's case: three entries of one timestamp have been rendered.
C6_Witness ==
    /\ "rss" \in written
    /\ Cardinality(DOMAIN state) = 3
    /\ \A g, h \in DOMAIN state :
           Get(state[g], "pubDate") = Get(state[h], "pubDate")

\* C7 (as claimed): the summary a run writes counts exactly the entries
\* update_state returned as new in that run, all under this run's time.
C7_SummaryOnlyNew ==
    "summary" \in written =>
        /\ SummaryCount(rss_summary_file) = Cardinality(DOMAIN changes)
        /\ \A i \in DOMAIN Items(rss_summary_file) :
               Items(rss_summary_file)[i].pubDate = clock

\* The entries of the state with first-seen timestamp p.
Group(p) == {g \in DOMAIN state : Get(state[g], "pubDate") = p}

\* Those of them in suburb sb.
InSuburb(p, sb) == {g \in Group(p) : Get(state[g], "Suburb") = sb}

MaxOf(S) == CHOOSE x \in S : \A y \in S : y <= x

\* What C8 says of one summary item, for the group of timestamp p.
SummaryItemRight(item, p) ==
    LET desc == item.description
    IN  /\ item.title[1] = Cardinality(Group(p))
        /\ {desc[i][1] : i \in DOMAIN desc} = {Get(state[g], "Suburb") : g \in Group(p)}
        /\ \A i, j \in DOMAIN desc : desc[i][1] = desc[j][1] => i = j
        /\ \A i \in DOMAIN desc : desc[i][2] = Cardinality(InSuburb(p, desc[i][1]))
        /\ \A i, j \in DOMAIN desc : i < j => desc[i][2] >= desc[j][2]
        /\ \A i, j \in DOMAIN desc :
               (i < j /\ desc[i][2] = desc[j][2]) =>
                   MaxOf(InSuburb(p, desc[i][1])) > MaxOf(InSuburb(p, desc[j][1]))
        /\ SumSeq([i \in DOMAIN desc |-> desc[i][2]]) = item.title[1]

\* C8: the summary has one item per distinct pubDate of the entries it is
\* given; its title counts the entries of that pubDate; its body lists each
\* suburb of the group once with its count, larger counts first and equal
\* counts in the order first met (the group is walked by descending id); and
\* the counts add up to the title's.
C8_SummaryGrouping ==
    "summary" \in written =>
        LET items == Items(rss_summary_file)
            stamps == {Get(state[g], "pubDate") : g \in DOMAIN state}
        IN  /\ Len(items) = Cardinality(stamps)
            /\ \A p \in stamps :
                   \E i \in DOMAIN items :
                       /\ items[i].pubDate = FromTimestamp(p)
                       /\ SummaryItemRight(items[i], p)

\* The test's case: one item '3 additional exposure sites', Fyshwick 2
\* before Nicholls 1.
C8_Witness ==
    /\ "summary" \in written
    /\ Len(Items(rss_summary_file)) = 1
    /\ Items(rss_summary_file)[1].title[1] = 3
    /\ Items(rss_summary_file)[1].description =
           << <<<<"Fyshwick">>, 2>>, <<<<"Nicholls">>, 1>> >>

\* C9 (as claimed): after a run that failed, the state document is the one
\* the last completed write left.
C9_StateDocumentIntact ==
    pc = "failed" => state_file = committed

\* C10 (as claimed): a run whose batch is identical to the previous run's
\* adds no entry and evicts none.
C10_RepeatBatchNoChange ==
    (pc = "done" /\ prev_batch = <<[i \in DOMAIN locations |-> Take(locations[i], Len(FIELDS))]>>) =>
        (changes = EmptyDict /\ Evicted = {})

\* A step of a run in which update_state added nothing and evicted nothing:
\* reading the inputs, update_state itself, the test of "changes", the exit.
QuietStep ==
    \/ pc \in {"idle", "failed", "update_state"}
    \/ pc \in {"if_changes", "done"} /\ changes = EmptyDict /\ Evicted = {}

\* C11: in a run in which update_state adds no entry and evicts none, no
\* step writes the detail feed, the summary feed or the state document: the
\* three files keep their contents and the run ends having written nothing.
C11_QuietRunWritesNothing ==
    [][QuietStep =>
          /\ rss_file' = rss_file
          /\ rss_summary_file' = rss_summary_file
          /\ state_file' = state_file
          /\ written' = {}]_vars

\* A run over an existing state and existing files that changed nothing.
C11_Witness ==
    /\ pc = "done"
    /\ changes = EmptyDict
    /\ Evicted = {}
    /\ state # EmptyDict
    /\ written = {}
    /\ rss_file.exists /\ rss_summary_file.exists /\ state_file.exists

\* C16 (as claimed): update_state(existing, exposures, now), for every
\* number now the caller passes, 0 included, returns exactly the entries
\* whose id is in the batch and not a key of the state before the call, and
\* stores each with pubDate equal to now.
C16_NewEntriesStampedNow ==
    [][\A now \in 0..MaxStamp :
          CallUpdate(<<now>>) =>
              /\ DOMAIN changes' = IdsOf(locations) \ DOMAIN state
              /\ \A g \in DOMAIN changes' :
                     /\ state'[g] = changes'[g]
                     /\ Get(state'[g], "pubDate") = now]_vars

\* update_state has been called at least once.
Called == pc \in {"call2", "called"}

\* C17: after update_state the keys of the state are exactly the ids of the
\* batch's records, also when several records share an id; each key is the
\* 'id' of its entry, and each entry has the pubDate and the fields gen_feed
\* and summarise_feed read.
C17_StateMirrorsBatch ==
    Called =>
        /\ DOMAIN state = IdsOf(locations)
        /\ \A g \in DOMAIN state :
               /\ Get(state[g], "id") = g
               /\ \A k \in {"pubDate", "id", "Exposure Site", "Suburb"} :
                      Has(state[g], k)
               /\ Get(state[g], "pubDate") \in Int

\* A call that evicted an entry and added one from a batch in which two
\* records share an id.
C17_Witness ==
    /\ pc = "call2"
    /\ DOMAIN loaded \ DOMAIN state # {}
    /\ changes # EmptyDict
    /\ \E i, j \in DOMAIN locations :
           i # j /\ Get(locations[i], "id") = Get(locations[j], "id")

\* C18: an entry whose id is both in the state before the call and in the
\* batch is left as it was by update_state: pubDate, Event Id, Status and
\* every other stored field.
C18_ListedAgainUntouched ==
    Called =>
        \A g \in DOMAIN loaded \cap IdsOf(locations) :
            g \in DOMAIN state /\ state[g] = loaded[g]

\* A call whose batch lists a stored id with another Event Id and Status.
C18_Witness ==
    /\ pc = "call2"
    /\ \E i \in DOMAIN locations :
           LET g == Get(locations[i], "id")
           IN  /\ g \in DOMAIN loaded
               /\ \A j \in DOMAIN locations : Get(locations[j], "id") = g => j <= i
               /\ Get(locations[i], "Status") # Get(loaded[g], "Status")
               /\ Get(locations[i], "Event Id") # Get(loaded[g], "Event Id")

\* The ids of the batch the previous run read.
PrevIds == IF prev_batch = <<>> THEN {} ELSE IdsOf(gen_id(prev_batch[1]))

\* The ids this run's batch lists again: seen in an earlier run, absent from
\* the previous run's batch.
Reappeared ==
    {g \in IdsOf(locations) :
        /\ prev_batch # <<>>
        /\ g \in DOMAIN first_seen
        /\ first_seen[g] < clock
        /\ g \notin PrevIds}

\* C19 (as claimed): an id that was listed, was then absent from the batch
\* of a completed run, and is listed again is created anew in the run where
\* it reappears: update_state returns it as new and its pubDate is that
\* run's clock.
C19_ReappearanceIsNew ==
    AfterUpdate =>
        \A g \in Reappeared :
            /\ g \in DOMAIN changes
            /\ Get(state[g], "pubDate") = UtcNowTimestamp(clock)

\* The state document is absent, cannot be parsed, or parses to something
\* other than a mapping of ids to entries.
NoUsableDocument == ~state_file.exists \/ ~state_file.whole \/ ~is_mapping(state_file)

\* C12 (as claimed): a run that finds no usable state document does not
\* abort; it goes on from an empty state, so update_state returns every id
\* of the batch as new, stamped with this run's clock.
C12_NoDocumentMeansEmptyState ==
    (NoUsableDocument /\ pc \in {"if_changes", "write_summary", "open_state", "failed"}) =>
        /\ pc # "failed"
        /\ loaded = EmptyDict
        /\ DOMAIN changes = IdsOf(locations)
        /\ \A g \in DOMAIN changes :
               Get(state[g], "pubDate") = UtcNowTimestamp(clock)

\* main has read a CSV text in this run.
HasRead == csv_data # <<>>

\* main has got past parse_csv and normalise in this run.
Parsed == HasRead /\ pc \notin {"idle", "failed"}

\* The first row of the text after trimming, title-casing and the removal
\* of trailing blank columns.
FirstRow(text) == pop_blank([i \in DOMAIN text[1] |-> title(strip(text[1][i]))])

\* The first row is the expected field set.
IsHeader(text) == Range(FirstRow(text)) = {<<FIELDS[i]>> : i \in DOMAIN FIELDS}

\* The three files are as the earlier run, if any, left them.
FilesAsBefore ==
    \/ /\ rss_file = NoFile
       /\ rss_summary_file = NoFile
       /\ state_file = NoFile
    \/ /\ rss_file = FileOf(gen_feed(SeenBefore, TZOffset))
       /\ rss_summary_file = FileOf(summarise_feed(SeenBefore, TZOffset))
       /\ state_file = FileOf(json_dump(SeenBefore))

\* The run was aborted before update_state and before any write.
AbortedEarly ==
    /\ pc = "failed"
    /\ locations = <<>>
    /\ state = EmptyDict
    /\ changes = EmptyDict
    /\ written = {}
    /\ FilesAsBefore

\* The locations of main without what gen_id, gen_region and update_state
\* added to them.
Fields(locs) == [i \in DOMAIN locs |-> Take(locs[i], Len(FIELDS))]

\* Every row of a text without a header as a record under FIELDS, the
\* first with its cells title-cased.
HeaderlessRecords(text) ==
    [r \in DOMAIN text |->
        [i \in DOMAIN FIELDS |->
            <<FIELDS[i], IF r = 1 THEN FirstRow(text)[i] ELSE strip(text[r][i])>>]]

\* C13 (as claimed): whenever the first row is not the expected field set,
\* parse_csv returns no locations and main aborts before update_state and
\* before any write; such a row is never passed on as data.
C13_MismatchAlwaysFatal ==
    (HasRead /\ pc # "idle" /\ ~IsHeader(csv_data)) => AbortedEarly

\* C13 (amended): a first row that is not the expected field set is fatal
\* exactly when it does not have as many columns as there are fields; with
\* that many columns it is the first record of a file without a header and
\* is passed on, title-cased, under the expected field names.  A first row
\* that is the field set, blank columns after it or not, is never fatal.
C13_MismatchFatalUnlessSameWidth ==
    (HasRead /\ pc # "idle") =>
        IF IsHeader(csv_data)
        THEN pc # "failed"
        ELSE IF Len(FirstRow(csv_data)) # Len(FIELDS)
        THEN AbortedEarly
        ELSE /\ pc # "failed"
             /\ Fields(locations) =
                    normalise(HeaderlessRecords(csv_data), LocalNow(clock))

\* A run aborted by a first row with a column missing, after an earlier
\* run had written the three files.
C13_Witness ==
    /\ AbortedEarly
    /\ rss_file.exists
    /\ Len(csv_data) > 1
    /\ ~IsHeader(csv_data)
    /\ Len(FirstRow(csv_data)) = Len(FIELDS) - 1

\* The Date of the record is in [MIN_DATETIME, now] and its times parse.
RecordValid(record, now) ==
    /\ dateparser_parse(Get(record, "Date")).ok
    /\ dateparser_parse(Get(record, "Date")).at >= MIN_DATETIME
    /\ dateparser_parse(Get(record, "Date")).at <= now
    /\ \A k \in {"Arrival Time", "Departure Time"} :
           dateparser_parse(Get(record, k)).ok

\* The records parse_csv returned in this run that are valid.
ValidRecords ==
    LET valid(record) == RecordValid(record, LocalNow(clock))
    IN  SelectSeq(parse_csv(csv_data).locations, valid)

SameButVolatile(a, b) ==
    \A k \in Range(FIELDS) \ {"Event Id", "Status"} : Get(a, k) = Get(b, k)

\* C15 (as claimed): whatever text parse_csv accepts, two records that
\* differ only in Event Id and Status get the same id.
C15_VolatileFieldsNotHashed ==
    Parsed =>
        \A i, j \in DOMAIN locations :
            SameButVolatile(locations[i], locations[j]) =>
                Get(locations[i], "id") = Get(locations[j], "id")

\* C20 (as claimed): two records whose values after the first two differ
\* somewhere are hashed from different strings, dashes in the values or not.
C20_HashedStringsDiffer ==
    Parsed =>
        \A i, j \in DOMAIN locations :
            LET a == Fields(locations)[i]
                b == Fields(locations)[j]
            IN  Drop(Values(a), 2) # Drop(Values(b), 2) => HashInput(a) # HashInput(b)

====
